---- MODULE Spec2Model ----
(***************************************************************************)
(* Model of Controller_Script/ts_test_controller.py: logger() and          *)
(* change_system_state().  A solenoid controller is toggled over a serial  *)
(* link every command_cycle_period, the operator can toggle it by hand     *)
(* with the key '0', every change is appended to the System State Table    *)
(* (dic) and the table is rewritten to a CSV file.                         *)
(*                                                                         *)
(* Time is an integer number of clock ticks; time.time() and               *)
(* datetime.datetime.now() read the same non-decreasing clock.  Values     *)
(* handed to get_timestamp are held in half ticks, so that the half period *)
(* added at line 183 is exact.  Timestamps are whole seconds, as           *)
(* strftime("%Y-%m-%d %H:%M:%S") drops the sub-second part.                *)
(***************************************************************************)
EXTENDS Integers, Sequences, FiniteSets

VARIABLES
    pc,                      \* position of logger(): gate, start, loop, done, aborted
    toggle,                  \* logger's toggle: 0 Off, 1 On
    dic,                     \* System State Table: rows [Timestamp, SystemState]
    origin,                  \* history: what appended each row of dic
    file,                    \* rows of the CSV file as last written by to_csv
    persists,                \* history: number of completed to_csv calls
    sent,                    \* number of command bytes accepted by ser.write
    cycle_n,                 \* logger's cycle_n (0 while not yet assigned)
    last_state_change_time,  \* logger's last_state_change_time, in ticks
    clock,                   \* the wall clock, in ticks
    kbd,                     \* console key presses not yet read by getch()
    events,                  \* operator inputs and clock skews used so far
    err                      \* the exception that ended the run, or "none"

vars == << pc, toggle, dic, origin, file, persists, sent, cycle_n,
           last_state_change_time, clock, kbd, events, err >>

(* ----------------------------- bounds ---------------------------------- *)

\* command_cycle_period*60, in ticks (the argument of logger).
CommandCyclePeriod == 3

\* Clock ticks per second of timestamp resolution.
TicksPerSec == 2

\* Operator inputs (key bursts, wrong gate answers) and clock skews in one run.
MaxEvents == 1

(* ----------------------------- constants ------------------------------- *)

\* while cycle_n < 20
MaxCycles == 20

\* cycle_n = 1
FirstCycle == 1

\* last_state_change_time before its first assignment.
NoTime == -1

Keys == {"0", "x"}

\* What the operator types at one go: one key, or two in quick succession.
KeyBursts == {<< k >> : k \in Keys} \cup {<< j, k >> : j \in Keys, k \in Keys}

(* ----------------------------- functions ------------------------------- *)

Last(s) == s[Len(s)]

\* Variant: the format keeps the seconds of the minute only, which wrap.
get_timestamp_seconds_only(h) == (h \div (2 * TicksPerSec)) % (2 * TicksPerSec)

\* strftime to second resolution; h is a time in half ticks.
get_timestamp(h) == h \div (2 * TicksPerSec)

\* Variant: the Off branch appends 'Off', as the comment at line 117 reads.
StateLabelAsCommented(tg) == "Off"

\* Variant: the row carries the state the solenoids are changed from.
StateLabelBefore(tg) == IF tg = 1 THEN "On" ELSE "Off"

\* The state the solenoids are changed to, given toggle before the change.
StateLabel(tg) == IF tg = 1 THEN "Off" ELSE "On"

\* Variant: the Off branch forgets toggle = 1.
NextToggleStuck(tg) == 0

\* Variant: both branches set toggle = 1.
NextToggleOn(tg) == 1

\* toggle after the change.
NextToggle(tg) == IF tg = 1 THEN 0 ELSE 1

\* Variant: the command is written twice.
ser_write_twice(n, io) == IF io = "sendfail" THEN n ELSE n + 2

\* ser.write(cmd): one byte to the controller, unless the write raises.
ser_write(n, io) == IF io = "sendfail" THEN n ELSE n + 1

\* Variant: only the newest row is written to the file.
to_csv_newest_row(table, old, io) ==
    IF io = "writefail" THEN old ELSE << table[Len(table)] >>

\* pd.DataFrame(dic).to_csv(writeFile): the file is replaced by the table,
\* unless the write raises.
to_csv(table, old, io) == IF io = "writefail" THEN old ELSE table

\* Variant: the test passes one tick early.
ElapsedEarly(now, last) == now - last >= CommandCyclePeriod - 1

\* time.time() - last_state_change_time >= command_cycle_period*60
Elapsed(now, last) == now - last >= CommandCyclePeriod

\* Variant: the loop stops one cycle short.
LoopContinuesShort(c) == c < MaxCycles - 1

\* Variant: while cycle_n <= 20.
LoopContinuesInclusive(c) == c <= MaxCycles

\* while cycle_n < 20
LoopContinues(c) == c < MaxCycles

\* Variant: the elapsed-time branch is never taken.
BranchNoTimer(key, elapsed) ==
    IF key # "none"
    THEN IF key = "0" THEN "manual" ELSE "ignored"
    ELSE "idle"

\* Variant: the elapsed-time test comes first.
BranchTimerFirst(key, elapsed) ==
    IF elapsed
    THEN "timer"
    ELSE IF key = "none" THEN "idle"
         ELSE IF key = "0" THEN "manual" ELSE "ignored"

\* The branch one loop iteration takes: key is the byte getch() returned,
\* or "none" when kbhit() was false.
Branch(key, elapsed) ==
    IF key # "none"
    THEN IF key = "0" THEN "manual" ELSE "ignored"
    ELSE IF elapsed THEN "timer" ELSE "idle"

\* Variant: cycle_n += 1 after a manual change as well.
CycleAfterAnyChange(c, b) == IF b \in {"timer", "manual"} THEN c + 1 ELSE c

\* cycle_n after an iteration that took branch b.
CycleAfter(c, b) == IF b = "timer" THEN c + 1 ELSE c

\* Variant: the half period is subtracted.
last_ts_before(now) == 2 * now - CommandCyclePeriod

\* datetime.datetime.now() + timedelta(seconds = command_cycle_period*60/2),
\* in half ticks.
last_ts(now) == 2 * now + CommandCyclePeriod

\* Variant: the final row carries the state toggle stands for.
FinalRowMeasured(now) ==
    [Timestamp |-> get_timestamp(2 * now + CommandCyclePeriod),
     SystemState |-> IF toggle = 1 THEN "On" ELSE "Off"]

\* The final row of the table.
FinalRow(now) == [Timestamp |-> get_timestamp(last_ts(now)), SystemState |-> "On"]

\* Variant: the next change stays on the grid of the previous one
\* (last_state_change_time advances by the period, not to the clock).
change_system_state_on_grid(tg, table, old, n, t1, t2, io) ==
    IF io = "sendfail"
    THEN [raised |-> "IOError", toggle |-> tg, dic |-> table, file |-> old,
          sent |-> n, last_state_change_time |-> NoTime]
    ELSE LET row == [Timestamp |-> get_timestamp(2 * t2),
                     SystemState |-> StateLabel(tg)]
             new == Append(table, row)
         IN  [raised |-> IF io = "writefail" THEN "PersistenceError" ELSE "none",
              toggle |-> NextToggle(tg),
              dic |-> new,
              file |-> to_csv(new, old, io),
              sent |-> n + 1,
              last_state_change_time |->
                  IF last_state_change_time = NoTime
                  THEN t1
                  ELSE last_state_change_time + CommandCyclePeriod]

\* Variant: the row is appended before the command is written.
change_system_state_row_first(tg, table, old, n, t1, t2, io) ==
    LET row == [Timestamp |-> get_timestamp(2 * t2),
                SystemState |-> StateLabel(tg)]
        new == Append(table, row)
    IN  IF io = "sendfail"
        THEN [raised |-> "IOError", toggle |-> tg, dic |-> new, file |-> old,
              sent |-> n, last_state_change_time |-> NoTime]
        ELSE [raised |-> IF io = "writefail" THEN "PersistenceError" ELSE "none",
              toggle |-> NextToggle(tg),
              dic |-> new,
              file |-> to_csv(new, old, io),
              sent |-> n + 1,
              last_state_change_time |-> t1]

\* change_system_state: t1 is the clock at time.time(), t2 the clock at
\* datetime.datetime.now(), io the outcome of the two writes.  dic, the file
\* and the serial line are changed in place; toggle and
\* last_state_change_time are returned, and reach logger only when no
\* exception is raised.
change_system_state(tg, table, old, n, t1, t2, io) ==
    IF io = "sendfail"
    THEN [raised |-> "IOError", toggle |-> tg, dic |-> table, file |-> old,
          sent |-> ser_write(n, io), last_state_change_time |-> NoTime]
    ELSE LET row == [Timestamp |-> get_timestamp(2 * t2),
                     SystemState |-> StateLabel(tg)]
             new == Append(table, row)
         IN  [raised |-> IF io = "writefail" THEN "PersistenceError" ELSE "none",
              toggle |-> NextToggle(tg),
              dic |-> new,
              file |-> to_csv(new, old, io),
              sent |-> ser_write(n, io),
              last_state_change_time |-> t1]

(* ----------------------------- environment ----------------------------- *)

\* Clock skews still available: 1 when a tick boundary falls between two
\* clock reads of one step.
Skews == IF events < MaxEvents THEN {0, 1} ELSE {0}

\* The clock between the last change and datetime.datetime.now() at line
\* 183: to_csv, cls and print run in between.
FinalSkews == {0, 1}

IOs == {"ok", "sendfail", "writefail"}

\* logger before input(): the run starts on a second boundary of the clock;
\* skews and key presses move later changes off the boundary.
Init ==
    /\ pc = "gate"
    /\ toggle = 0
    /\ dic = << >>
    /\ origin = << >>
    /\ file = << >>
    /\ persists = 0
    /\ sent = 0
    /\ cycle_n = 0
    /\ last_state_change_time = NoTime
    /\ clock = 0
    /\ kbd = << >>
    /\ events = 0
    /\ err = "none"

\* The result r of change_system_state reaches the variables; by is the
\* branch that called it, c the value cycle_n takes when it returns.
Fired(r, by, c, t2, e) ==
    /\ dic' = r.dic
    /\ origin' = IF Len(r.dic) > Len(dic) THEN Append(origin, by) ELSE origin
    /\ file' = r.file
    /\ persists' = IF r.raised = "none" THEN persists + 1 ELSE persists
    /\ sent' = r.sent
    /\ clock' = t2
    /\ events' = IF r.raised = "IOError" THEN events ELSE events + e
    /\ IF r.raised = "none"
       THEN /\ toggle' = r.toggle
            /\ last_state_change_time' = r.last_state_change_time
            /\ cycle_n' = c
            /\ pc' = "loop"
            /\ err' = "none"
       ELSE /\ pc' = "aborted"
            /\ err' = r.raised
            /\ UNCHANGED << toggle, last_state_change_time, cycle_n >>

\* Variant: any answer opens the gate.
GateRetryPasses ==
    /\ pc = "gate"
    /\ events < MaxEvents
    /\ events' = events + 1
    /\ pc' = "start"
    /\ UNCHANGED << toggle, dic, origin, file, persists, sent, cycle_n,
                    last_state_change_time, clock, kbd, err >>

\* cmd = input(); while cmd != '': a non-empty answer repeats the prompt.
GateRetry ==
    /\ pc = "gate"
    /\ events < MaxEvents
    /\ events' = events + 1
    /\ UNCHANGED << pc, toggle, dic, origin, file, persists, sent, cycle_n,
                    last_state_change_time, clock, kbd, err >>

\* cmd = input() returns the empty string.
GatePass ==
    /\ pc = "gate"
    /\ pc' = "start"
    /\ UNCHANGED << toggle, dic, origin, file, persists, sent, cycle_n,
                    last_state_change_time, clock, kbd, events, err >>

\* time.sleep(1), the first change_system_state, cycle_n = 1.
FirstTransition ==
    /\ pc = "start"
    /\ \E e \in Skews, io \in IOs :
         LET t1 == clock + TicksPerSec
             t2 == IF io = "sendfail" THEN t1 ELSE t1 + e
             r  == change_system_state(toggle, dic, file, sent, t1, t2, io)
         IN  Fired(r, "initial", FirstCycle, t2, e)
    /\ UNCHANGED kbd

\* The operator presses keys while the loop runs.
KeyPress ==
    /\ pc \in {"start", "loop"}
    /\ events < MaxEvents
    /\ \E ks \in KeyBursts : kbd' = kbd \o ks
    /\ events' = events + 1
    /\ UNCHANGED << pc, toggle, dic, origin, file, persists, sent, cycle_n,
                    last_state_change_time, clock, err >>

\* time.sleep(0.01): the clock moves on while the loop has nothing to do.
Tick ==
    /\ pc = "loop"
    /\ LoopContinues(cycle_n)
    /\ kbd = << >>
    /\ ~Elapsed(clock, last_state_change_time)
    /\ clock' = clock + 1
    /\ UNCHANGED << pc, toggle, dic, origin, file, persists, sent, cycle_n,
                    last_state_change_time, kbd, events, err >>

\* One iteration of the while loop that takes branch b: kbhit() and getch(),
\* then the branch.
Iterate(b) ==
    /\ pc = "loop"
    /\ LoopContinues(cycle_n)
    /\ LET key     == IF kbd = << >> THEN "none" ELSE Head(kbd)
           elapsed == Elapsed(clock, last_state_change_time)
       IN  /\ b = Branch(key, elapsed)
           /\ kbd' = IF kbd = << >> THEN kbd ELSE Tail(kbd)
           /\ IF b \in {"manual", "timer"}
              THEN \E e \in Skews, io \in IOs :
                     LET t2 == IF io = "sendfail" THEN clock ELSE clock + e
                         r  == change_system_state(toggle, dic, file, sent,
                                                   clock, t2, io)
                     IN  Fired(r, b, CycleAfter(cycle_n, b), t2, e)
              ELSE UNCHANGED << pc, toggle, dic, origin, file, persists, sent,
                                cycle_n, last_state_change_time, clock,
                                events, err >>

\* if msvcrt.kbhit(): cmd == b'0'
ManualOverride == Iterate("manual")

\* if msvcrt.kbhit(): cmd != b'0'
IgnoredKey == Iterate("ignored")

\* elif time.time() - last_state_change_time >= command_cycle_period*60
TimerTransition == Iterate("timer")

\* Neither branch is taken.
Idle == Iterate("idle")

\* After the loop: the final row and the final to_csv.
Shutdown ==
    /\ pc = "loop"
    /\ ~LoopContinues(cycle_n)
    /\ \E f \in FinalSkews, io \in {"ok", "writefail"} :
         LET now == clock + f
             new == Append(dic, FinalRow(now))
         IN  /\ dic' = new
             /\ origin' = Append(origin, "synthetic")
             /\ file' = to_csv(new, file, io)
             /\ persists' = IF io = "ok" THEN persists + 1 ELSE persists
             /\ clock' = now
             /\ events' = events
             /\ pc' = IF io = "ok" THEN "done" ELSE "aborted"
             /\ err' = IF io = "ok" THEN "none" ELSE "PersistenceError"
    /\ UNCHANGED << toggle, sent, cycle_n, last_state_change_time, kbd >>

Next ==
    \/ GateRetry
    \/ GatePass
    \/ FirstTransition
    \/ KeyPress
    \/ Tick
    \/ ManualOverride
    \/ IgnoredKey
    \/ TimerTransition
    \/ Idle
    \/ Shutdown

Spec == Init /\ [][Next]_vars

(* ----------------------------- liveness -------------------------------- *)

\* A key other than '0' is held down: it is pending again whenever the
\* loop has read it.  (A held '0' stalls the loop as well, through
\* ManualOverride, with a table that grows without bound.)
KeyRepeat ==
    /\ pc = "loop"
    /\ LoopContinues(cycle_n)
    /\ kbd = << >>
    /\ kbd' = << "x" >>
    /\ UNCHANGED << pc, toggle, dic, origin, file, persists, sent, cycle_n,
                    last_state_change_time, clock, events, err >>

LiveNext == Next \/ KeyRepeat

\* logger is one sequential thread: once past the gate it takes its next
\* step, and the clock moves while the loop waits.  The operator is under
\* no obligation.
Fairness ==
    /\ WF_vars(FirstTransition)
    /\ WF_vars(Tick)
    /\ WF_vars(ManualOverride)
    /\ WF_vars(IgnoredKey)
    /\ WF_vars(TimerTransition)
    /\ WF_vars(Shutdown)

LiveSpec == Init /\ [][LiveNext]_vars /\ Fairness

(* ----------------------------- properties ------------------------------ *)

\* Rows of the table appended by the branches in S.
Rows(S) == {i \in 1 .. Len(origin) : origin[i] \in S}

Real == {"initial", "timer", "manual"}

\* A step of the loop that read a key with getch().
ReadsKey == pc = "loop" /\ kbd # << >> /\ kbd' = Tail(kbd)

\* C1: any two consecutive rows that are both records of a real change carry
\* different states; only the final row added after the loop is exempt.
C1_Alternation ==
    \A i \in 2 .. Len(dic) :
        (origin[i] \in Real /\ origin[i - 1] \in Real)
            => dic[i].SystemState # dic[i - 1].SystemState

C1_Witness ==
    \E i \in 2 .. Len(dic) - 1 :
        origin[i - 1] = "timer" /\ origin[i] = "manual" /\ origin[i + 1] = "timer"

\* C2: when logger has returned, exactly 20 counted changes (the first one
\* and the timed ones) were made, whatever the number of manual ones, and the
\* table has exactly one final row, its last; no such row exists while the
\* loop still runs.
C2_CycleCountTermination ==
    /\ Len(origin) = Len(dic)
    /\ pc = "done" =>
          /\ Cardinality(Rows({"initial", "timer"})) = MaxCycles
          /\ cycle_n = MaxCycles
          /\ Len(dic) = MaxCycles + Cardinality(Rows({"manual"})) + 1
          /\ Rows({"synthetic"}) = {Len(dic)}
    /\ Rows({"synthetic"}) # {} =>
          /\ pc \in {"done", "aborted"}
          /\ ~LoopContinues(cycle_n)

C2_Witness == pc = "done" /\ Cardinality(Rows({"manual"})) = 2

\* C3: an iteration that reads a key leaves cycle_n as it was, and appends
\* one row when the key is '0'; cycle_n changes in the loop only by one, in
\* an iteration with no key pending and the period elapsed.
C3_OverrideKeepsCycle ==
    [][ /\ ReadsKey =>
              /\ cycle_n' = cycle_n
              /\ (Head(kbd) = "0" /\ err' = "none") =>
                    /\ Len(dic') = Len(dic) + 1
                    /\ sent' = sent + 1
        /\ (pc = "loop" /\ cycle_n' # cycle_n) =>
              /\ kbd = << >>
              /\ Elapsed(clock, last_state_change_time)
              /\ cycle_n' = cycle_n + 1 ]_vars

C3_Witness ==
    \E i \in 2 .. Len(dic) :
        /\ origin[i - 1] = "manual"
        /\ origin[i] = "manual"
        /\ dic[i].Timestamp = dic[i - 1].Timestamp
        /\ cycle_n = Cardinality(Rows({"initial", "timer"}))

\* The step after the loop has appended its row.
FinalRowAppended == pc = "done" \/ (pc = "aborted" /\ ~LoopContinues(cycle_n))

\* C4: the number of command bytes sent equals the number of rows that are
\* not the final row, and the table has one row more than that exactly when
\* the final row has been appended.
C4_CommandPerTransition ==
    /\ sent = Cardinality(Rows(Real))
    /\ Len(dic) = sent + (IF FinalRowAppended THEN 1 ELSE 0)

C4_Witness == pc = "done" /\ sent = MaxCycles + 2

\* C5: an iteration that finds '0' pending and the period elapsed makes one
\* change and leaves cycle_n as it was; no step sends more than one byte or
\* appends more than one row.
C5_PriorityTieBreak ==
    [][ /\ (ReadsKey /\ Head(kbd) = "0"
               /\ Elapsed(clock, last_state_change_time)) =>
              /\ cycle_n' = cycle_n
              /\ sent' = sent + (IF err' = "IOError" THEN 0 ELSE 1)
              /\ Len(dic') = Len(dic) + (IF err' = "IOError" THEN 0 ELSE 1)
        /\ sent' <= sent + 1
        /\ Len(dic') <= Len(dic) + 1 ]_vars

\* The only event of the run so far is one '0', read at the very tick the
\* period after the previous timed change had elapsed.
C5_Witness ==
    /\ pc = "loop"
    /\ events = 1
    /\ Len(dic) >= 2
    /\ origin[Len(dic)] = "manual"
    /\ last_state_change_time = TicksPerSec + (Len(dic) - 1) * CommandCyclePeriod
    /\ cycle_n = Len(dic) - 1
    /\ sent = Len(dic)

\* C6: the timestamps of consecutive rows never decrease, the final row
\* included.
C6_MonotonicTimestamps ==
    \A i \in 2 .. Len(dic) : dic[i].Timestamp >= dic[i - 1].Timestamp

C6_Witness ==
    /\ pc = "done"
    /\ Rows({"manual"}) # {}
    /\ \E i \in 2 .. Len(dic) : dic[i].Timestamp = dic[i - 1].Timestamp

\* C7: when logger has returned, the last row of the table is the final row,
\* it reads On whatever toggle is, no byte was sent for it, and the file
\* holds the table with that row.
C7_SyntheticFinalRow ==
    pc = "done" =>
        /\ origin[Len(dic)] = "synthetic"
        /\ Last(dic).SystemState = "On"
        /\ sent = Len(dic) - 1
        /\ file = dic
        /\ Last(file).SystemState = "On"

C7_Witness == pc = "done" /\ toggle = 0 /\ Rows({"manual"}) # {}

\* C8: the timestamp of the final row is last_state_change_time plus half
\* the command cycle period.
C8_FinalTimestamp ==
    pc = "done" =>
        Last(dic).Timestamp =
            get_timestamp(2 * last_state_change_time + CommandCyclePeriod)

C10_SendFailureAtomicity ==
    /\ [](err = "IOError" =>
            /\ pc = "aborted"
            /\ ~ENABLED Next
            /\ Rows({"synthetic"}) = {}
            /\ file = dic
            /\ Len(file) = sent)
    /\ [][((err = "none" /\ err' = "IOError") =>
              /\ dic' = dic
              /\ file' = file
              /\ sent' = sent
              /\ toggle' = toggle
              /\ cycle_n' = cycle_n
              /\ last_state_change_time' = last_state_change_time)
          /\ ((Len(dic') > Len(dic) /\ Last(origin') \in Real) =>
                sent' = sent + 1)]_vars

C10_Witness ==
    /\ err = "IOError"
    /\ sent = 4
    /\ Len(file) = 4
    /\ Rows({"manual"}) # {}

\* The loop is between two iterations, or logger has not started or has
\* returned.
AtBoundary == pc \in {"gate", "start", "loop", "done"}

\* C11: between iterations and at return the file holds the rows of the
\* table, and to_csv has completed once per change made plus once for the
\* final row.
C11_PersistenceConsistency ==
    /\ AtBoundary => (file = dic /\ persists = Len(dic))
    /\ pc = "done" => persists = sent + 1

C11_Witness ==
    /\ pc = "done"
    /\ file = dic
    /\ persists = MaxCycles + 3
    /\ Rows({"manual"}) # {}

\* The name of the state toggle stands for.
ToggleName(tg) == IF tg = 1 THEN "On" ELSE "Off"

Anchor == IF last_state_change_time = NoTime THEN clock ELSE last_state_change_time

\* C14 as claimed: every change that counts toward cycle_n, the first one
\* included, is made at least one command cycle period after the previous
\* change, or after the start of the run.
C14_CountedAfterPeriod ==
    [][cycle_n' # cycle_n =>
           last_state_change_time' - Anchor >= CommandCyclePeriod]_vars

\* C14 as amended: no byte is sent and cycle_n is unset until the first
\* change, which is made one second after the gate whatever the period and
\* sets cycle_n to 1; every later change that counts is made by the
\* elapsed-time test, at least one period after the previous change.
C14_FirstUnconditional ==
    /\ [](pc \in {"gate", "start"} => (sent = 0 /\ cycle_n = 0))
    /\ [][cycle_n' # cycle_n =>
             IF pc = "start"
             THEN /\ cycle_n' = FirstCycle
                  /\ sent' = 1
                  /\ last_state_change_time' = clock + TicksPerSec
             ELSE /\ pc = "loop"
                  /\ kbd = << >>
                  /\ cycle_n' = cycle_n + 1
                  /\ last_state_change_time' = clock
                  /\ clock - last_state_change_time >= CommandCyclePeriod]_vars

C14_Witness ==
    /\ pc = "loop"
    /\ events = 0
    /\ cycle_n = 2
    /\ sent = 2
    /\ TicksPerSec < CommandCyclePeriod
    /\ last_state_change_time = TicksPerSec + CommandCyclePeriod

\* C15: every change, manual or timed, sets last_state_change_time to the
\* clock it read, and a timed change is only made when at least one period
\* has passed since that time.
C15_ReAnchoring ==
    [][ /\ (sent' # sent /\ err' = "none") =>
              /\ last_state_change_time' =
                     (IF pc = "start" THEN clock + TicksPerSec ELSE clock)
              /\ last_state_change_time' <= clock'
        /\ (sent' # sent /\ pc = "loop" /\ kbd = << >>) =>
              clock - last_state_change_time >= CommandCyclePeriod ]_vars

\* A manual change off the grid of the timed ones, then a timed change one
\* period after it.
C15_Witness ==
    /\ pc = "loop"
    /\ Len(dic) >= 3
    /\ origin[Len(dic) - 1] = "manual"
    /\ origin[Len(dic)] = "timer"
    /\ (last_state_change_time - TicksPerSec) % CommandCyclePeriod # 0

\* C16: an iteration that finds a key other than '0' pending while the
\* period has elapsed makes the timed change and advances cycle_n.
C16_IgnoredKeyNoDelay ==
    [][(ReadsKey /\ Head(kbd) # "0" /\ LoopContinues(cycle_n)
           /\ Elapsed(clock, last_state_change_time)) =>
          (cycle_n' = cycle_n + 1 /\ sent' = sent + 1)]_vars

\* C17: while logger waits at the gate nothing has been sent, logged or
\* written and toggle is 0; a non-empty answer leaves it there.
C17_ConfirmationGate ==
    /\ [](pc = "gate" =>
            /\ sent = 0
            /\ dic = << >>
            /\ file = << >>
            /\ persists = 0
            /\ toggle = 0)
    /\ [][(pc = "gate" /\ events' # events) =>
              (pc' = "gate" /\ sent' = 0 /\ dic' = << >> /\ file' = << >>)]_vars

C17_Witness == pc = "gate" /\ events = 1 /\ sent = 0 /\ dic = << >>

\* C18 as claimed: consecutive rows of changes carry strictly increasing
\* timestamps.
C18_StrictlyIncreasing ==
    \A i \in 2 .. Len(dic) :
        (origin[i] \in Real /\ origin[i - 1] \in Real)
            => dic[i].Timestamp > dic[i - 1].Timestamp

\* C18 as amended: the rows of changes are in non-decreasing timestamp
\* order: the row of a change never carries an earlier timestamp than the
\* row of the change before it (and so than any earlier one), and it may
\* repeat it.
C18_NonDecreasing ==
    \A i \in 2 .. Len(dic) :
        (origin[i] \in Real /\ origin[i - 1] \in Real)
            => dic[i - 1].Timestamp <= dic[i].Timestamp

\* Two manual changes within one second.
C18_Witness ==
    \E i \in 2 .. Len(dic) :
        /\ origin[i - 1] = "manual"
        /\ origin[i] = "manual"
        /\ dic[i].Timestamp = dic[i - 1].Timestamp
        /\ pc = "loop"

\* C19: between iterations toggle is the parity of the bytes sent, that is
\* the state of a device that started Off and flips on every byte.
C19_DeviceSync == AtBoundary => toggle = sent % 2

C19_Witness ==
    /\ pc = "loop"
    /\ toggle = 1
    /\ sent >= 3
    /\ origin[Len(dic)] = "manual"
    /\ kbd = << >>

\* C20: when logger has returned, the last row of a change reads Off, and
\* the device is Off, exactly when the number of manual changes is even.
C20_FinalStateParity ==
    pc = "done" =>
        LET even == Cardinality(Rows({"manual"})) % 2 = 0
        IN  /\ (dic[Len(dic) - 1].SystemState = "Off") <=> even
            /\ (dic[Len(dic) - 1].SystemState = "On") <=> ~even
            /\ (sent % 2 = 0) <=> even
            /\ (toggle = 0) <=> even

\* An odd number of manual changes: the final row repeats On.
C20_Witness ==
    /\ pc = "done"
    /\ Cardinality(Rows({"manual"})) = 1
    /\ dic[Len(dic) - 1].SystemState = Last(dic).SystemState

\* logger has returned, or an exception has ended it.
Ended == pc = "done" \/ err # "none"

====
